---------------------------- MODULE Spec2Model ----------------------------
(***************************************************************************)
(* Near-Earth objects and their close approaches (models.py).              *)
(*                                                                         *)
(* Python values are tagged records, so that values of different Python    *)
(* types can be told apart without comparing their payloads:               *)
(*   None          [t |-> "None"]                                          *)
(*   str           [t |-> "str",   v |-> "..."]                            *)
(*   bool          [t |-> "bool",  v |-> TRUE/FALSE]                       *)
(*   float         [t |-> "float", v |-> n]   n = the value in thousandths *)
(*   float('nan')  [t |-> "nan"]                                           *)
(*   datetime      [t |-> "datetime", year, month, day, hour, minute]      *)
(*   NEO reference [t |-> "NearEarthObject", id |-> index into neos]       *)
(*   dict          [t |-> "dict", d |-> a record of Python values]         *)
(* A call ends in Ret(value) or in Raise(exception, message).              *)
(***************************************************************************)
EXTENDS Integers, Sequences, FiniteSets, TLC

VARIABLES
    neos,       \* the NearEarthObject instances, in order of construction
    cas,        \* the CloseApproach instances, in order of construction
    last        \* the last call: its operation, receiver, arguments, outcome

vars == <<neos, cas, last>>

\* How many objects of each class a behaviour constructs.
MaxNeos == 2
MaxApproaches == 2

---------------------------------------------------------------------------
\* Python values

None == [t |-> "None"]
Str(s) == [t |-> "str", v |-> s]
Bool(b) == [t |-> "bool", v |-> b]
Float(n) == [t |-> "float", v |-> n]
NaN == [t |-> "nan"]
Ref(i) == [t |-> "NearEarthObject", id |-> i]
Dict(r) == [t |-> "dict", d |-> r]

Ret(v) == [kind |-> "return", value |-> v]
Raise(e, m) == [kind |-> "raise", exc |-> e, msg |-> m]

\* x == s and x != s for a str literal s (models.py compares with '' and 'Y').
EqStr(x, s) == x.t = "str" /\ x.v = s

\* bool(x), for the values the properties test (self.name, self.time).
Truthy(x) ==
    CASE x.t = "None" -> FALSE
      [] x.t = "str" -> x.v /= ""
      [] x.t = "bool" -> x.v
      [] x.t = "float" -> x.v /= 0
      [] OTHER -> TRUE

\* math.isnan(x) for a float x.
IsNan(x) == x.t = "nan"

---------------------------------------------------------------------------
\* Text

Digits == <<"0", "1", "2", "3", "4", "5", "6", "7", "8", "9">>

Char(s, i) == SubSeq(s, i, i)

IsDigit(c) == \E k \in 1..10 : Digits[k] = c

DigitVal(c) == (CHOOSE k \in 1..10 : Digits[k] = c) - 1

\* The number a run of decimal digits s[i..j] denotes (0 for an empty run).
RECURSIVE DigitsVal(_, _, _)
DigitsVal(s, i, j) ==
    IF j < i THEN 0 ELSE DigitsVal(s, i, j - 1) * 10 + DigitVal(Char(s, j))

AllDigits(s, i, j) == \A k \in i..j : IsDigit(Char(s, k))

\* n >= 0 in decimal, padded with zeros to at least w digits.
RECURSIVE Pad(_, _)
Pad(n, w) ==
    IF n < 10 /\ w <= 1 THEN Digits[n + 1]
    ELSE Pad(n \div 10, w - 1) \o Digits[(n % 10) + 1]

\* Whether sub occurs in s.
Contains(s, sub) ==
    \E i \in 1..(Len(s) - Len(sub) + 1) : SubSeq(s, i, i + Len(sub) - 1) = sub

\* The index of the first "." of s, 0 when it has none.
DotAt(s) ==
    IF \E i \in 1..Len(s) : Char(s, i) = "."
    THEN CHOOSE i \in 1..Len(s) :
             Char(s, i) = "." /\ \A k \in 1..(i - 1) : Char(s, k) /= "."
    ELSE 0

\* float(s) for a str s: "nan", or an optionally signed decimal with at most
\* three fractional digits (the thousandths a float of the model holds).
StrToFloat(s) ==
    LET neg == Len(s) > 0 /\ Char(s, 1) = "-"
        b == IF neg \/ (Len(s) > 0 /\ Char(s, 1) = "+") THEN 2 ELSE 1
        body == SubSeq(s, b, Len(s))
        dot == DotAt(body)
        n == Len(body)
        ip == IF dot = 0 THEN n ELSE dot - 1
        fl == IF dot = 0 THEN 0 ELSE n - dot
        ok == /\ n > 0
              /\ ip + fl > 0
              /\ fl <= 3
              /\ AllDigits(body, 1, ip)
              /\ dot /= 0 => AllDigits(body, dot + 1, n)
        scale == CASE fl = 0 -> 1000 [] fl = 1 -> 100 [] fl = 2 -> 10 [] OTHER -> 1
        mag == DigitsVal(body, 1, ip) * 1000
               + (IF dot = 0 THEN 0 ELSE DigitsVal(body, dot + 1, n) * scale)
    IN  IF s = "nan" THEN Ret(NaN)
        ELSE IF ok THEN Ret(Float(IF neg THEN 0 - mag ELSE mag))
        ELSE Raise("ValueError", "could not convert string to float: '" \o s \o "'")

\* float(x)
PyFloat(x) ==
    CASE x.t = "float" -> Ret(x)
      [] x.t = "nan" -> Ret(x)
      [] x.t = "bool" -> Ret(Float(IF x.v THEN 1000 ELSE 0))
      [] x.t = "str" -> StrToFloat(x.v)
      [] OTHER -> Raise("TypeError",
                        "float() argument must be a string or a number")

\* f"{x:.3f}" for a float x: thousandths print exactly.
Fmt3(x) ==
    IF IsNan(x) THEN "nan"
    ELSE LET m == IF x.v < 0 THEN 0 - x.v ELSE x.v
         IN  (IF x.v < 0 THEN "-" ELSE "")
             \o Pad(m \div 1000, 1) \o "." \o Pad(m % 1000, 3)

\* f"{x:.2f}" for a float x: rounded to hundredths (the floats of the model
\* have no thousandths digit 5, where the binary value decides the rounding).
Fmt2(x) ==
    IF IsNan(x) THEN "nan"
    ELSE LET m == IF x.v < 0 THEN 0 - x.v ELSE x.v
             h == (m + 5) \div 10
         IN  (IF x.v < 0 /\ h > 0 THEN "-" ELSE "")
             \o Pad(h \div 100, 1) \o "." \o Pad(h % 100, 2)

\* repr(x) for None, a str without quotes in it, a bool.
PyRepr(x) ==
    CASE x.t = "None" -> "None"
      [] x.t = "str" -> "'" \o x.v \o "'"
      [] x.t = "bool" -> IF x.v THEN "True" ELSE "False"
      [] OTHER -> "?"

\* str(x), as an f-string field prints it.
PyStr(x) ==
    CASE x.t = "None" -> "None"
      [] x.t = "str" -> x.v
      [] x.t = "bool" -> IF x.v THEN "True" ELSE "False"
      [] OTHER -> "?"

---------------------------------------------------------------------------
\* helpers.py: the date parser and the date formatter

MonthAbbr ==
    <<"Jan", "Feb", "Mar", "Apr", "May", "Jun",
      "Jul", "Aug", "Sep", "Oct", "Nov", "Dec">>

IsLeap(y) == (y % 4 = 0 /\ y % 100 /= 0) \/ y % 400 = 0

DaysIn(y, m) ==
    CASE m = 2 -> IF IsLeap(y) THEN 29 ELSE 28
      [] m \in {4, 6, 9, 11} -> 30
      [] OTHER -> 31

\* cd_to_datetime: the fixed format "YYYY-Mon-DD HH:MM" to a datetime, and
\* None for what does not parse.
cd_to_datetime(x) ==
    IF x.t /= "str" \/ Len(x.v) /= 17 THEN None
    ELSE
      LET s == x.v
          shape == /\ AllDigits(s, 1, 4) /\ Char(s, 5) = "-"
                   /\ \E m \in 1..12 : MonthAbbr[m] = SubSeq(s, 6, 8)
                   /\ Char(s, 9) = "-" /\ AllDigits(s, 10, 11)
                   /\ Char(s, 12) = " " /\ AllDigits(s, 13, 14)
                   /\ Char(s, 15) = ":" /\ AllDigits(s, 16, 17)
          y == DigitsVal(s, 1, 4)
          mo == CHOOSE m \in 1..12 : MonthAbbr[m] = SubSeq(s, 6, 8)
          d == DigitsVal(s, 10, 11)
          h == DigitsVal(s, 13, 14)
          mi == DigitsVal(s, 16, 17)
      IN  IF shape /\ y >= 1 /\ d >= 1 /\ d <= DaysIn(y, mo) /\ h <= 23 /\ mi <= 59
          THEN [t |-> "datetime", year |-> y, month |-> mo, day |-> d,
                hour |-> h, minute |-> mi]
          ELSE None

\* datetime_to_str: a datetime in the same pattern, without seconds.
datetime_to_str(d) ==
    Pad(d.year, 4) \o "-" \o MonthAbbr[d.month] \o "-" \o Pad(d.day, 2)
    \o " " \o Pad(d.hour, 2) \o ":" \o Pad(d.minute, 2)

---------------------------------------------------------------------------
\* class NearEarthObject

\* An argument the caller leaves out takes the parameter's default.
Absent == [t |-> "absent"]
Default(x, d) == IF x = Absent THEN d ELSE x

\* self.name = name if name != '' else None
NearEarthObject_name(name) == IF ~EqStr(name, "") THEN name ELSE None

\* A constructor that tests the diameter for None, not for ''.
NearEarthObject_diameter_NoneTest(diameter) ==
    IF diameter /= None THEN PyFloat(diameter) ELSE Ret(NaN)

\* self.diameter = float(diameter) if diameter != '' else float('nan')
NearEarthObject_diameter(diameter) ==
    IF ~EqStr(diameter, "") THEN PyFloat(diameter) ELSE Ret(NaN)

\* A constructor that takes the flag's truth value.
NearEarthObject_hazardous_Truthy(hazardous) ==
    IF Truthy(hazardous) THEN Bool(TRUE) ELSE Bool(FALSE)

\* self.hazardous = True if hazardous == 'Y' else False
NearEarthObject_hazardous(hazardous) ==
    IF EqStr(hazardous, "Y") THEN Bool(TRUE) ELSE Bool(FALSE)

\* A list all the objects share: a new object sees the first one's events.
NearEarthObject_approaches_Shared ==
    IF neos = <<>> THEN <<>> ELSE neos[1].approaches

\* self.approaches = []
NearEarthObject_approaches == <<>>

\* __init__(self, designation='', name=None, diameter=float('nan'),
\*          hazardous=False): the new object, or the exception float() raises.
NearEarthObject__init__(designation, name, diameter, hazardous) ==
    LET f == NearEarthObject_diameter(Default(diameter, NaN))
    IN  IF f.kind = "raise" THEN f
        ELSE Ret([name |-> NearEarthObject_name(Default(name, None)),
                  designation |-> Default(designation, Str("")),
                  diameter |-> f.value,
                  hazardous |->
                      NearEarthObject_hazardous(Default(hazardous, Bool(FALSE))),
                  approaches |-> NearEarthObject_approaches])

\* A fullname that always adds the parentheses.
fullname_AlwaysNamed(self) ==
    PyStr(self.designation) \o " (" \o PyStr(self.name) \o ")"

\* The fullname property.
fullname(self) ==
    IF Truthy(self.name)
    THEN PyStr(self.designation) \o " (" \o PyStr(self.name) \o ")"
    ELSE PyStr(self.designation)

\* A description without the test for an unknown diameter.
NearEarthObject__str__NoNanBranch(self) ==
    "NEO " \o fullname(self) \o " has a diameter of "
    \o Fmt3(self.diameter) \o " km and "
    \o (IF Truthy(self.hazardous) THEN "is" ELSE "is not") \o " "
    \o "potentially hazardous."

\* __str__
NearEarthObject__str__(self) ==
    IF ~IsNan(self.diameter)
    THEN "NEO " \o fullname(self) \o " has a diameter of "
         \o Fmt3(self.diameter) \o " km and "
         \o (IF Truthy(self.hazardous) THEN "is" ELSE "is not") \o " "
         \o "potentially hazardous."
    ELSE "NEO " \o fullname(self) \o ", "
         \o (IF Truthy(self.hazardous) THEN "is" ELSE "is not")
         \o " potentially " \o "hazardous."

\* __repr__
NearEarthObject__repr__(self) ==
    "NearEarthObject(designation=" \o PyRepr(self.designation) \o ",  "
    \o "name=" \o PyRepr(self.name) \o ", diameter=" \o Fmt3(self.diameter)
    \o ", " \o "hazardous=" \o PyRepr(self.hazardous) \o ")"

---------------------------------------------------------------------------
\* class CloseApproach

\* A constructor that takes the neo argument for the reference.
CloseApproach_neo_FromArgument(neo) == neo

\* self.neo = None
CloseApproach_neo(neo) == None

\* __init__(self, distance=0.0, velocity=0.0, time='0001-Jan-01 00:00',
\*          neo=None): the new event, or the exception float() raises.
CloseApproach__init__(distance, velocity, time, neo) ==
    LET tm == cd_to_datetime(Default(time, Str("0001-Jan-01 00:00")))
        di == PyFloat(Default(distance, Float(0)))
        ve == PyFloat(Default(velocity, Float(0)))
    IN  IF di.kind = "raise" THEN di
        ELSE IF ve.kind = "raise" THEN ve
        ELSE Ret([designation_ |-> Default(neo, None),
                  time |-> tm,
                  distance |-> di.value,
                  velocity |-> ve.value,
                  neo |-> CloseApproach_neo(Default(neo, None))])

\* A time_str that formats whatever time holds.
time_str_Unguarded(self) ==
    IF self.time = None THEN PyStr(self.time) ELSE datetime_to_str(self.time)

\* The time_str property.
time_str(self) ==
    IF Truthy(self.time) THEN datetime_to_str(self.time)
    ELSE "an unknown date and time"

\* The designation property.
designation(self) == self.designation_

\* self.neo.<attr>: the object self.neo refers to, when it refers to one.
HasNeo(self) == self.neo.t = "NearEarthObject"
NeoOf(self) == neos[self.neo.id]
NoAttribute(x, attr) ==
    Raise("AttributeError",
          "'" \o (IF x.t = "None" THEN "NoneType" ELSE x.t)
          \o "' object has no attribute '" \o attr \o "'")

\* A description that prints None for the missing object.
CloseApproach__str__NoneTolerant(self) ==
    Ret(Str("At " \o time_str(self) \o ", '"
            \o (IF HasNeo(self) THEN fullname(NeoOf(self)) ELSE "None")
            \o "' approached " \o "Earth at a distance of "
            \o Fmt2(self.distance) \o " au and a " \o "velocity of "
            \o Fmt2(self.velocity) \o " km/s."))

\* __str__
CloseApproach__str__(self) ==
    IF ~HasNeo(self) THEN NoAttribute(self.neo, "fullname")
    ELSE Ret(Str("At " \o time_str(self) \o ", '" \o fullname(NeoOf(self))
                 \o "' approached " \o "Earth at a distance of "
                 \o Fmt2(self.distance) \o " au and a " \o "velocity of "
                 \o Fmt2(self.velocity) \o " km/s."))

\* __repr__: repr(self.neo) is 'None' for an event without its NEO.
CloseApproach__repr__(self) ==
    Ret(Str("CloseApproach(time=" \o PyRepr(Str(time_str(self))) \o ", "
            \o "distance=" \o Fmt2(self.distance) \o ", "
            \o "velocity=" \o Fmt2(self.velocity) \o ", "
            \o "neo=" \o (IF HasNeo(self)
                          THEN NearEarthObject__repr__(NeoOf(self))
                          ELSE PyRepr(self.neo)) \o ")"))

\* The two dictionaries serialize builds.
CsvData(self) ==
    Dict([datetime_utc |-> Str(time_str(self)),
          distance_au |-> self.distance,
          velocity_km_s |-> self.velocity,
          designation |-> NeoOf(self).designation,
          name |-> NeoOf(self).name,
          diameter_km |-> NeoOf(self).diameter,
          potentially_hazardous |-> NeoOf(self).hazardous])

JsonData(self) ==
    Dict([datetime_utc |-> Str(time_str(self)),
          distance_au |-> self.distance,
          velocity_km_s |-> self.velocity,
          neo |-> Dict([designation |-> NeoOf(self).designation,
                        name |-> NeoOf(self).name,
                        diameter_km |-> NeoOf(self).diameter,
                        potentially_hazardous |-> NeoOf(self).hazardous])])

\* A serialize without the test of the extension.
serialize_Unchecked(self, extension) ==
    IF ~HasNeo(self) THEN NoAttribute(self.neo, "designation")
    ELSE IF EqStr(extension, "csv") THEN Ret(CsvData(self))
    ELSE Ret(JsonData(self))

\* A serialize whose json names the object by its fullname.
serialize_JsonFullname(self, extension) ==
    IF ~(EqStr(extension, "csv") \/ EqStr(extension, "json"))
    THEN Raise("ValueError", "Invalid file extension")
    ELSE IF ~HasNeo(self) THEN NoAttribute(self.neo, "designation")
    ELSE IF EqStr(extension, "csv") THEN Ret(CsvData(self))
    ELSE Ret(Dict([JsonData(self).d EXCEPT
                       !.neo = Dict([@.d EXCEPT
                                         !.name = Str(fullname(NeoOf(self)))])]))

\* serialize(self, extension)
serialize(self, extension) ==
    IF ~(EqStr(extension, "csv") \/ EqStr(extension, "json"))
    THEN Raise("ValueError", "Invalid file extension")
    ELSE IF ~HasNeo(self) THEN NoAttribute(self.neo, "designation")
    ELSE IF EqStr(extension, "csv") THEN Ret(CsvData(self))
    ELSE Ret(JsonData(self))

---------------------------------------------------------------------------
\* The calls a program makes. Each records itself in last.

Call(op, self, args, out) == [op |-> op, self |-> self, args |-> args, out |-> out]

NeoIds == 1..Len(neos)
CaIds == 1..Len(cas)

\* NearEarthObject(designation, name, diameter, hazardous)
NewNearEarthObject(designation_, name, diameter, hazardous) ==
    /\ Len(neos) < MaxNeos
    /\ LET out == NearEarthObject__init__(designation_, name, diameter, hazardous)
           args == <<designation_, name, diameter, hazardous>>
       IN  IF out.kind = "return"
           THEN /\ neos' = Append(neos, out.value)
                /\ last' = Call("NearEarthObject", Len(neos) + 1, args,
                                Ret(Ref(Len(neos) + 1)))
           ELSE /\ neos' = neos
                /\ last' = Call("NearEarthObject", 0, args, out)
    /\ UNCHANGED cas

\* CloseApproach(distance, velocity, time, neo)
NewCloseApproach(distance, velocity, time, neo) ==
    /\ Len(cas) < MaxApproaches
    /\ LET out == CloseApproach__init__(distance, velocity, time, neo)
           args == <<distance, velocity, time, neo>>
       IN  IF out.kind = "return"
           THEN /\ cas' = Append(cas, out.value)
                /\ last' = Call("CloseApproach", Len(cas) + 1, args, Ret(None))
           ELSE /\ cas' = cas
                /\ last' = Call("CloseApproach", 0, args, out)
    /\ UNCHANGED neos

\* The link step of the database that owns both collections, once per event:
\* the event's neo becomes the object of the event's designation, and the
\* event joins that object's approaches.
Link(e, o) ==
    /\ cas[e].neo = None
    /\ neos[o].designation = cas[e].designation_
    /\ cas' = [cas EXCEPT ![e].neo = Ref(o)]
    /\ neos' = [neos EXCEPT ![o].approaches = Append(@, e)]
    /\ last' = Call("link", e, <<Ref(o)>>, Ret(None))

\* neo.fullname
GetFullname(o) ==
    /\ last' = Call("fullname", o, <<>>, Ret(Str(fullname(neos[o]))))
    /\ UNCHANGED <<neos, cas>>

\* str(neo)
StrNeo(o) ==
    /\ last' = Call("NearEarthObject.__str__", o, <<>>,
                    Ret(Str(NearEarthObject__str__(neos[o]))))
    /\ UNCHANGED <<neos, cas>>

\* repr(neo)
ReprNeo(o) ==
    /\ last' = Call("NearEarthObject.__repr__", o, <<>>,
                    Ret(Str(NearEarthObject__repr__(neos[o]))))
    /\ UNCHANGED <<neos, cas>>

\* approach.time_str
GetTimeStr(e) ==
    /\ last' = Call("time_str", e, <<>>, Ret(Str(time_str(cas[e]))))
    /\ UNCHANGED <<neos, cas>>

\* approach.designation
GetDesignation(e) ==
    /\ last' = Call("designation", e, <<>>, Ret(designation(cas[e])))
    /\ UNCHANGED <<neos, cas>>

\* str(approach)
StrApproach(e) ==
    /\ last' = Call("CloseApproach.__str__", e, <<>>, CloseApproach__str__(cas[e]))
    /\ UNCHANGED <<neos, cas>>

\* repr(approach)
ReprApproach(e) ==
    /\ last' = Call("CloseApproach.__repr__", e, <<>>, CloseApproach__repr__(cas[e]))
    /\ UNCHANGED <<neos, cas>>

\* approach.serialize(extension)
Serialize(e, extension) ==
    /\ last' = Call("serialize", e, <<extension>>, serialize(cas[e], extension))
    /\ UNCHANGED <<neos, cas>>

---------------------------------------------------------------------------
\* The arguments the calls are made with

\* Rows of the two data files, as the loader passes them; an event row
\* without any field, and one whose time does not parse.
NeoRows ==
    { <<Str("433"), Str("Eros"), Str("16.84"), Str("N")>>,
      <<Str("2015 AB"), Str(""), Str(""), Str("Y")>> }

CaRows ==
    { <<Str("0.148"), Str("5.1"), Str("1900-Dec-27 01:30"), Str("433")>>,
      <<Absent, Absent, Absent, Absent>> }

UndatedCaRows == { <<Float(0), Str("5.1"), Str("1900-Dec-27"), Str("2015 AB")>> }

Extensions == {Str("csv"), Str("json"), Str("xml"), Str("CSV"), None}

\* Every kind of value a constructor argument may take.
NameArgs == {Absent, None, Str(""), Str("Eros")}

DiameterArgs ==
    {Absent, Str(""), Str("16.84"), Float(16840), Float(0), Str("0"),
     Float(-1500), Str("-1.5"), Str("abc"), None}

HazardousArgs ==
    {Absent, Str("Y"), Str("y"), Str("N"), Str(""), Bool(TRUE), Bool(FALSE), None}

TimeArgs ==
    {Absent, Str("1900-Dec-27 01:30"), Str("2020-Feb-29 23:59"),
     Str("2021-Feb-29 12:00"), Str("2020-Jan-01 00:61"), Str("1900-12-27 01:30"),
     Str("1900-Dec-27"), Str("garbage"), Str("")}

MeasureArgs == {Absent, Str("0.148"), Float(5100), Str("fast")}

DesignationArgs == {Absent, None, Str("433"), Str("2015 AB")}

---------------------------------------------------------------------------
\* The whole life of a data set: construction, linking, and the reads of an
\* event before and after it is linked.

Init ==
    /\ neos = <<>>
    /\ cas = <<>>
    /\ last = Call("none", 0, <<>>, Ret(None))

Next ==
    \/ \E r \in NeoRows : NewNearEarthObject(r[1], r[2], r[3], r[4])
    \/ \E r \in CaRows \cup UndatedCaRows :
           NewCloseApproach(r[1], r[2], r[3], r[4])
    \/ \E e \in CaIds, o \in NeoIds : Link(e, o)
    \/ \E e \in CaIds : GetDesignation(e)
    \/ \E e \in CaIds : StrApproach(e)
    \/ \E e \in CaIds : ReprApproach(e)
    \/ \E e \in CaIds, x \in Extensions : Serialize(e, x)

Spec == Init /\ [][Next]_vars

\* Objects alone: a row with one argument replaced by each kind of value.
NextNeo ==
    \/ \E r \in NeoRows, n \in NameArgs : NewNearEarthObject(r[1], n, r[3], r[4])
    \/ \E r \in NeoRows, k \in DiameterArgs : NewNearEarthObject(r[1], r[2], k, r[4])
    \/ \E r \in NeoRows, h \in HazardousArgs : NewNearEarthObject(r[1], r[2], r[3], h)
    \/ \E o \in NeoIds : GetFullname(o)
    \/ \E o \in NeoIds : StrNeo(o)
    \/ \E o \in NeoIds : ReprNeo(o)

SpecNeo == Init /\ [][NextNeo]_vars

\* Events alone: a row with one argument replaced by each kind of value.
NextApproach ==
    \/ \E r \in CaRows, x \in MeasureArgs : NewCloseApproach(x, r[2], r[3], r[4])
    \/ \E r \in CaRows, v \in MeasureArgs : NewCloseApproach(r[1], v, r[3], r[4])
    \/ \E r \in CaRows, t \in TimeArgs : NewCloseApproach(r[1], r[2], t, r[4])
    \/ \E r \in CaRows, d \in DesignationArgs : NewCloseApproach(r[1], r[2], r[3], d)
    \/ \E e \in CaIds : GetTimeStr(e)
    \/ \E e \in CaIds : GetDesignation(e)
    \/ \E e \in CaIds : ReprApproach(e)

SpecApproach == Init /\ [][NextApproach]_vars

---------------------------------------------------------------------------
\* Properties of serialize

ValidExtensions == {Str("csv"), Str("json")}

CsvKeys ==
    {"datetime_utc", "distance_au", "velocity_km_s", "designation", "name",
     "diameter_km", "potentially_hazardous"}

JsonKeys == {"datetime_utc", "distance_au", "velocity_km_s", "neo"}

JsonNeoKeys == {"designation", "name", "diameter_km", "potentially_hazardous"}

Linked(e) == cas[e].neo /= None

\* C1: serialize with a format tag other than exactly "csv" or "json" raises
\* ValueError("Invalid file extension") on every event, linked or not, so it
\* returns no structure, and the call changes neither an event nor an object.
C1_InvalidExtensionRaises ==
    /\ [](\A e \in CaIds : \A x \in Extensions \ ValidExtensions :
              serialize(cas[e], x) = Raise("ValueError", "Invalid file extension"))
    /\ [](last.op = "serialize" /\ last.args[1] \notin ValidExtensions
              => last.out = Raise("ValueError", "Invalid file extension"))
    /\ [][last'.op = "serialize" => UNCHANGED <<neos, cas>>]_vars

C1_Witness ==
    /\ last.op = "serialize"
    /\ last.args[1] = Str("xml")
    /\ Linked(last.self)
    /\ \E e \in CaIds : ~Linked(e)

\* C2: on a linked event the csv and the json results carry the same seven
\* values, the event's formatted time, distance and velocity and the four
\* fields of its object; csv is flat with exactly the seven keys, json has the
\* first three keys and a nested neo mapping with exactly the four object keys.
C2_CsvJsonSameValues ==
    \A e \in CaIds : Linked(e) =>
        LET c == serialize(cas[e], Str("csv"))
            j == serialize(cas[e], Str("json"))
            o == neos[cas[e].neo.id]
        IN  /\ c.kind = "return" /\ c.value.t = "dict"
            /\ j.kind = "return" /\ j.value.t = "dict"
            /\ DOMAIN c.value.d = CsvKeys
            /\ DOMAIN j.value.d = JsonKeys
            /\ j.value.d.neo.t = "dict"
            /\ DOMAIN j.value.d.neo.d = JsonNeoKeys
            /\ c.value.d.datetime_utc = Str(time_str(cas[e]))
            /\ c.value.d.distance_au = cas[e].distance
            /\ c.value.d.velocity_km_s = cas[e].velocity
            /\ c.value.d.designation = o.designation
            /\ c.value.d.name = o.name
            /\ c.value.d.diameter_km = o.diameter
            /\ c.value.d.potentially_hazardous = o.hazardous
            /\ \A k \in JsonKeys \ {"neo"} : j.value.d[k] = c.value.d[k]
            /\ \A k \in JsonNeoKeys : j.value.d.neo.d[k] = c.value.d[k]

C2_Witness ==
    /\ last.op = "serialize"
    /\ last.args[1] = Str("json")
    /\ last.out.kind = "return"
    /\ neos[cas[last.self].neo.id].name /= None
    /\ \E e \in CaIds : Linked(e) /\ IsNan(neos[cas[e].neo.id].diameter)

---------------------------------------------------------------------------
\* Properties of an event that is not linked yet

NeoReads == {"CloseApproach.__str__", "CloseApproach.__repr__", "serialize"}

ReadsNeo(c) ==
    /\ c.op \in NeoReads
    /\ c.op = "serialize" => c.args[1] \in ValidExtensions

\* C3 as stated: on an event whose neo is still None the description, the
\* debug representation and serialize with a valid tag all fail.
C3_UnlinkedReadsAllFail ==
    ReadsNeo(last) /\ ~Linked(last.self) => last.out.kind = "raise"

\* C3: on an event whose neo is still None the description and serialize with
\* a valid tag raise AttributeError; the debug representation does not fail,
\* it returns the text with neo=None in it.
C3_UnlinkedStrSerializeFail ==
    \A e \in CaIds : ~Linked(e) =>
        /\ CloseApproach__str__(cas[e]).kind = "raise"
        /\ CloseApproach__str__(cas[e]).exc = "AttributeError"
        /\ \A x \in ValidExtensions :
               /\ serialize(cas[e], x).kind = "raise"
               /\ serialize(cas[e], x).exc = "AttributeError"
        /\ CloseApproach__repr__(cas[e]).kind = "return"
        /\ Contains(CloseApproach__repr__(cas[e]).value.v, "neo=None)")

C3_Witness ==
    /\ last.op = "CloseApproach.__repr__"
    /\ ~Linked(last.self)
    /\ last.out.kind = "return"

---------------------------------------------------------------------------
\* Properties of the two references

\* The objects whose approaches hold event e.
Holders(e) ==
    {o \in NeoIds : \E k \in 1..Len(neos[o].approaches) : neos[o].approaches[k] = e}

\* C4: after any constructions and link steps, every event in an object's
\* approaches has that object as its neo; every linked event has exactly one
\* owning object, the one of its designation, and is in that object's
\* approaches; a new object has no approaches, and approaches change only by
\* a link step appending the linked event.
C4_MutualReferences ==
    /\ [](\A o \in NeoIds : \A k \in 1..Len(neos[o].approaches) :
              /\ neos[o].approaches[k] \in CaIds
              /\ cas[neos[o].approaches[k]].neo = Ref(o))
    /\ [](\A e \in CaIds : Linked(e) =>
              /\ cas[e].neo.t = "NearEarthObject"
              /\ cas[e].neo.id \in NeoIds
              /\ neos[cas[e].neo.id].designation = cas[e].designation_
              /\ Holders(e) = {cas[e].neo.id})
    /\ [](last.op = "NearEarthObject" /\ last.out.kind = "return"
              => neos[last.self].approaches = <<>>)
    /\ [][\A o \in NeoIds : neos'[o].approaches /= neos[o].approaches =>
              /\ last'.op = "link"
              /\ neos'[o].approaches = Append(neos[o].approaches, last'.self)]_vars

C4_Witness ==
    /\ Len(neos) = 2 /\ Len(cas) = 2
    /\ Linked(1) /\ Linked(2)
    /\ cas[1].neo /= cas[2].neo
    /\ last.op = "link"

\* C5: a new event has neo None whatever designation argument it was given,
\* absent included, and holds the argument as its designation; the accessor
\* returns the stored value, and no later call, the link step included,
\* changes it.
C5_DesignationKept ==
    /\ [](last.op = "CloseApproach" /\ last.out.kind = "return" =>
              /\ cas[last.self].neo = None
              /\ designation(cas[last.self]) = Default(last.args[4], None))
    /\ [](last.op = "designation" => last.out = Ret(cas[last.self].designation_))
    /\ [][\A e \in CaIds : designation(cas'[e]) = designation(cas[e])]_vars

C5_Witness ==
    /\ last.op = "designation"
    /\ Linked(last.self)
    /\ last.out = Ret(Str("433"))
    /\ \E e \in CaIds : cas[e].designation_ = None

---------------------------------------------------------------------------
\* Properties of the event's time

UnparseableTimes ==
    {Str("2021-Feb-29 12:00"), Str("2020-Jan-01 00:61"), Str("1900-12-27 01:30"),
     Str("1900-Dec-27"), Str("garbage"), Str("")}

WellFormedTimes == {Str("1900-Dec-27 01:30"), Str("2020-Feb-29 23:59")}

Coercible(x, d) == PyFloat(Default(x, d)).kind = "return"

\* C6: no time string makes the constructor fail (it fails only when float()
\* rejects the distance or the velocity); a string that does not parse leaves
\* time None, and time_str is then "an unknown date and time"; when time is
\* set, time_str is the formatter's text for it.
C6_UnparseableTimeIsNone ==
    /\ last.op = "CloseApproach" =>
          /\ Coercible(last.args[1], Float(0)) /\ Coercible(last.args[2], Float(0))
                 => last.out.kind = "return"
          /\ last.out.kind = "return" /\ last.args[3] \in UnparseableTimes =>
                 /\ cas[last.self].time = None
                 /\ time_str(cas[last.self]) = "an unknown date and time"
          /\ last.out.kind = "return" /\ last.args[3] \in WellFormedTimes =>
                 /\ cas[last.self].time /= None
                 /\ time_str(cas[last.self]) = last.args[3].v
    /\ \A e \in CaIds :
          time_str(cas[e]) = IF cas[e].time = None
                             THEN "an unknown date and time"
                             ELSE datetime_to_str(cas[e].time)
    /\ last.op = "time_str" => last.out = Ret(Str(time_str(cas[last.self])))

C6_Witness ==
    /\ last.op = "time_str"
    /\ cas[last.self].time = None
    /\ last.out = Ret(Str("an unknown date and time"))
    /\ \E e \in CaIds : cas[e].time /= None

---------------------------------------------------------------------------
\* Properties of an object's fields

Constructed == last.op = "NearEarthObject" /\ last.out.kind = "return"

NonNegativeOrNan(x) == IsNan(x) \/ (x.t = "float" /\ x.v >= 0)

\* C7 as stated: whatever diameter argument the constructor was given, the
\* diameter of the object it returns is a non-negative number or not-a-number.
C7_DiameterNonNegativeOrNan ==
    \A o \in NeoIds : NonNegativeOrNan(neos[o].diameter)

\* C7: an empty-string diameter becomes not-a-number; any other argument is
\* passed to float(), whose exception ends the constructor and whose value is
\* stored as it is, a negative one included: diameter is a number or
\* not-a-number, and negative only when the argument was.
C7_DiameterIsFloatOfArgument ==
    /\ \A o \in NeoIds : IsNan(neos[o].diameter) \/ neos[o].diameter.t = "float"
    /\ last.op = "NearEarthObject" =>
          LET a == Default(last.args[3], NaN)
          IN  /\ EqStr(a, "") => Constructed /\ IsNan(neos[last.self].diameter)
              /\ ~EqStr(a, "") /\ PyFloat(a).kind = "raise" => last.out = PyFloat(a)
              /\ ~EqStr(a, "") /\ PyFloat(a).kind = "return" =>
                     Constructed /\ neos[last.self].diameter = PyFloat(a).value
              /\ a \in {Str("16.84"), Float(16840)} =>
                     neos[last.self].diameter = Float(16840)
              /\ a \in {Str("-1.5"), Float(-1500)} =>
                     neos[last.self].diameter = Float(-1500)
              /\ Constructed /\ a \notin {Str("-1.5"), Float(-1500)} =>
                     NonNegativeOrNan(neos[last.self].diameter)

C7_Witness ==
    /\ Constructed
    /\ last.args[3] = Str("")
    /\ IsNan(neos[last.self].diameter)
    /\ \E o \in NeoIds : neos[o].diameter = Float(-1500)

\* C8: an empty and an absent name are both stored as None and give
\* fullname = designation; a non-empty name gives "designation (name)";
\* reading fullname returns, and changes no object or event.
C8_Fullname ==
    /\ [](Constructed =>
              LET n == Default(last.args[2], None)
                  o == neos[last.self]
              IN  /\ n \in {None, Str("")} =>
                         o.name = None /\ fullname(o) = o.designation.v
                  /\ n \notin {None, Str("")} =>
                         /\ o.name = n
                         /\ fullname(o) = o.designation.v \o " (" \o n.v \o ")")
    /\ [](\A o \in NeoIds :
              /\ neos[o].name /= Str("")
              /\ fullname(neos[o]) =
                     IF neos[o].name = None THEN neos[o].designation.v
                     ELSE neos[o].designation.v \o " (" \o neos[o].name.v \o ")")
    /\ [](last.op = "fullname" => last.out = Ret(Str(fullname(neos[last.self]))))
    /\ [][last'.op = "fullname" => UNCHANGED <<neos, cas>>]_vars

C8_Witness ==
    /\ last.op = "fullname"
    /\ last.out = Ret(Str("433 (Eros)"))
    /\ \E o \in NeoIds : neos[o].name = None /\ fullname(neos[o]) = "2015 AB"

\* C9: hazardous is True exactly when the argument is the str "Y"; "y", "N",
\* "", True and an absent argument all give False.
C9_HazardousOnlyY ==
    /\ Constructed => (neos[last.self].hazardous = Bool(TRUE) <=> last.args[4] = Str("Y"))
    /\ Constructed /\ last.args[4] /= Str("Y") => neos[last.self].hazardous = Bool(FALSE)
    /\ \A o \in NeoIds : neos[o].hazardous \in {Bool(TRUE), Bool(FALSE)}

C9_Witness ==
    /\ Constructed
    /\ last.args[4] = Str("y")
    /\ neos[last.self].hazardous = Bool(FALSE)
    /\ \E o \in NeoIds : neos[o].hazardous = Bool(TRUE)

IsWord(o) == IF o.hazardous = Bool(TRUE) THEN "is" ELSE "is not"

DiameterClause(o) == "has a diameter of " \o Fmt3(o.diameter) \o " km and"

\* C10: the description has the clause "has a diameter of <3 decimals> km and"
\* exactly when the diameter is a number; with not-a-number it is
\* "NEO <fullname>, <is|is not> potentially hazardous."; the word is "is"
\* exactly when hazardous is True.
C10_Description ==
    /\ \A i \in NeoIds :
          LET o == neos[i]
              d == NearEarthObject__str__(o)
          IN  /\ Contains(d, DiameterClause(o)) <=> ~IsNan(o.diameter)
              /\ Contains(d, "has a diameter of") <=> ~IsNan(o.diameter)
              /\ IsNan(o.diameter) =>
                     d = "NEO " \o fullname(o) \o ", " \o IsWord(o)
                         \o " potentially hazardous."
              /\ ~IsNan(o.diameter) =>
                     d = "NEO " \o fullname(o) \o " " \o DiameterClause(o) \o " "
                         \o IsWord(o) \o " potentially hazardous."
    /\ last.op = "NearEarthObject.__str__" =>
          last.out = Ret(Str(NearEarthObject__str__(neos[last.self])))

C10_Witness ==
    /\ last.op = "NearEarthObject.__str__"
    /\ last.out = Ret(Str("NEO 2015 AB, is not potentially hazardous."))
    /\ \E o \in NeoIds :
          Contains(NearEarthObject__str__(neos[o]),
                   "has a diameter of 16.840 km and is not potentially hazardous")

===========================================================================
